---- MODULE Spec2Model ----
(***************************************************************************)
(* A model of the SmartFace voice pipeline: the intent classifier of       *)
(* smartface/nlp.py (NLPProcessor), the endpoint-detecting recording       *)
(* loops of client.py (SmartFaceClient.record) and smartface/stt.py        *)
(* (SpeechToText.listen), the routers of smartface/main.py and server.py   *)
(* with the client loop that drives them, and the reminder store of        *)
(* smartface/skills/reminder.py (ReminderSkill).                           *)
(*                                                                         *)
(* Cosine similarities are integers: Scale stands for 1.0, -Scale for -1.0.*)
(* Python dicts are sequences of [k, v] records in insertion order.        *)
(***************************************************************************)
EXTENDS Integers, Sequences, FiniteSets, TLC

VARIABLES
    intents,            \* NLPProcessor.intents: dict intent -> list of phrases
    lists,              \* the list objects of the caller that intents holds
    intent_embeddings,  \* NLPProcessor.intent_embeddings: dict intent -> vectors
    nlpOp,              \* the last completed NLPProcessor call and what it returned
    wr,                 \* a thread inside add_intent_examples: its position and locals
    rd,                 \* the threads inside classify_intent: position and locals of each
    fn,                 \* the recording call in progress: "record" or "listen"
    pc,                 \* its position
    clock,              \* time.time(), in ticks
    start_time,         \* start_time of the call
    last_read,          \* how long the most recent stream.read took, in ticks
    data,               \* record, listen: data, the chunk most recently read
    frames,             \* record: frames
    silence,            \* record: silence
    spoken,             \* record: spoken
    full_text,          \* listen: full_text
    silence_counter,    \* listen: self.silence_counter
    last_partial,       \* listen: last_partial
    has_spoken,         \* listen: has_spoken
    ret,                \* how the call ended and what it returned
    who,                \* the conversation driver that runs
    at,                 \* its position: "listen", "heard" or "ended"
    running,            \* SmartFace.running
    user_text,          \* the text of the utterance or request being served
    turn,               \* how that text was routed and what came of it
    said,               \* what was spoken since the driver last listened
    reminders,          \* ReminderSkill.reminders
    reminders_json,     \* what the file REMINDERS_FILE holds
    rem_ret             \* the last completed ReminderSkill call and its message

nlpVars == <<intents, lists, intent_embeddings, nlpOp>>

concVars == <<wr, rd>>

recVars == <<frames, silence, spoken>>

lisVars == <<full_text, silence_counter, last_partial, has_spoken>>

vadVars == <<fn, pc, clock, start_time, last_read, data, frames, silence,
             spoken, full_text, silence_counter, last_partial, has_spoken,
             ret>>

driveVars == <<who, at, running, user_text, turn, said>>

remVars == <<reminders, reminders_json, rem_ret>>

\* What a step of a recording call leaves alone.
vadFrame == <<fn, intents, lists, intent_embeddings, nlpOp, wr, rd, driveVars, remVars>>

vars == <<intents, lists, intent_embeddings, nlpOp, wr, rd, fn, pc, clock,
          start_time, last_read, data, frames, silence, spoken, full_text,
          silence_counter, last_partial, has_spoken, ret, who, at, running,
          user_text, turn, said, reminders, reminders_json, rem_ret>>

-----------------------------------------------------------------------------
(* Bounds of the model *)

\* Resolution of the similarity scale: Scale is the cosine value 1.0.
Scale == 2
\* The catalog holds at most this many example phrases in total.
MaxPhrases == 3
\* add_intent_examples is called with 1..MaxNew phrases.
MaxNew == 1
\* Threads calling classify_intent while one thread calls add_intent_examples.
NumReaders == 2
\* smartface/config.py, lines 43-45, scaled down: SILENCE_THRESHOLD (50
\* frames), ENERGY_THRESHOLD (an RMS of 500) and LISTEN_TIMEOUT (15 s, in
\* ticks here).
SILENCE_THRESHOLD == 2
ENERGY_THRESHOLD == 1
LISTEN_TIMEOUT == 4
\* The RMS of a frame is in 0..MaxRms.
MaxRms == 2
\* A stream.read takes 1..MaxReadTicks ticks.
MaxReadTicks == 2
\* main.py, line 181, and server.py, line 208, scaled down: a search result
\* of more than 300 characters is summarized.
SUMMARY_LIMIT == 3
\* A search result has at most SUMMARY_LIMIT + MaxExcess characters.
MaxExcess == 3
\* In a sequence of add_intent_examples calls alone, a call is made while
\* the catalog and the list given hold at most this many phrases together.
MaxCatalog == 5
\* add_reminder is called while fewer than MaxReminders reminders are
\* stored; the ids asked for are in 1..MaxReminders.
MaxReminders == 3

-----------------------------------------------------------------------------
(* Texts *)

\* Python's None, passed where a str is expected.
NoneText == "<None>"

\* Example phrases: trimmed, lower-case strings.
Phrases == {"hello", "foo bar", "bye"}

\* Texts handed to classify_intent.
Texts == Phrases \cup {NoneText, "", "  ", " Hello "}

\* Intent names add_intent_examples is called with.
IntentNames == {"greet", "goodbye", "custom_intent", "unknown"}

\* str.strip()
Strip(t) ==
    CASE t = "  " -> ""
      [] t = " Hello " -> "Hello"
      [] OTHER -> t

\* str.lower()
Lower(t) ==
    CASE t = "Hello" -> "hello"
      [] t = " Hello " -> " hello "
      [] OTHER -> t

\* `not text or not text.strip()` (IsBlankMissingStrip: without the strip)
IsBlankMissingStrip(t) == t = NoneText \/ t = ""

IsBlank(t) == t = NoneText \/ t = "" \/ Strip(t) = ""

\* `text.strip().lower()`
Normalize(t) == Lower(Strip(t))

-----------------------------------------------------------------------------
(* Python dict, insertion ordered *)

Keys(d) == {d[n].k : n \in 1..Len(d)}

KeySeq(d) == [n \in 1..Len(d) |-> d[n].k]

Pos(d, key) == CHOOSE n \in 1..Len(d) : d[n].k = key

Get(d, key) == d[Pos(d, key)].v

\* d[key] = val: an existing key keeps its position, a new key goes last.
Put(d, key, val) ==
    IF key \in Keys(d)
    THEN [d EXCEPT ![Pos(d, key)] = [k |-> key, v |-> val]]
    ELSE Append(d, [k |-> key, v |-> val])

RECURSIVE SumLen(_)
SumLen(d) == IF d = <<>> THEN 0 ELSE Len(Head(d).v) + SumLen(Tail(d))

-----------------------------------------------------------------------------
(* The embedding model and cosine similarity *)

SimValues == (0 - Scale)..Scale

\* model.encode(examples): one vector per phrase, in phrase order.
EncodeAll(phrases) == [n \in 1..Len(phrases) |-> [vec |-> phrases[n]]]

\* model.encode([text])[0] for the text being classified.  The model is a
\* frozen external function: what the model fixes is cos, the cosine of the
\* text's vector with the vector of every phrase; a vector has cosine 1.0
\* with itself.
QueryEmbeddings(t) ==
    {[vec |-> t, cos |-> c] : c \in {f \in [Phrases -> SimValues] :
                                        t \in Phrases => f[t] = Scale}}

\* cosine_similarity([text_embedding], embeddings)[0]
Similarities(q, embeddings) ==
    [n \in 1..Len(embeddings) |-> q.cos[embeddings[n].vec]]

\* np.max(similarities)
MaxOf(s) == CHOOSE m \in {s[n] : n \in 1..Len(s)} :
                \A n \in 1..Len(s) : s[n] <= m

-----------------------------------------------------------------------------
(* NLPProcessor.classify_intent *)

\* `max_similarity > best_score` (BetterOrEqual: with >=, the last of
\* several equal intents would win)
BetterOrEqual(sim, best) == sim >= best

Better(sim, best) == sim > best

\* `best_score < threshold` (BelowOrAtThreshold: with <=)
BelowOrAtThreshold(score, threshold) == score <= threshold

BelowThreshold(score, threshold) == score < threshold

\* The loop over self.intent_embeddings.items(), from its k-th item on.
RECURSIVE BestMatch(_, _, _, _)
BestMatch(embs, q, k, best) ==
    IF k > Len(embs) THEN best
    ELSE LET max_similarity == MaxOf(Similarities(q, embs[k].v))
         IN  BestMatch(embs, q, k + 1,
                 IF Better(max_similarity, best.score)
                 THEN [intent |-> embs[k].k, score |-> max_similarity]
                 ELSE best)

\* The value classify_intent returns for a text whose embedding is q, and
\* the number of calls of model.encode it made.
ClassifyResult(embs, text, q, threshold) ==
    IF IsBlank(text)
    THEN [intent |-> "unknown", score |-> 0, calls |-> 0]
    ELSE LET best == BestMatch(embs, q, 1, [intent |-> "unknown", score |-> 0])
         IN  IF BelowThreshold(best.score, threshold)
             THEN [intent |-> "unknown", score |-> best.score, calls |-> 1]
             ELSE [intent |-> best.intent, score |-> best.score, calls |-> 1]

\* A blank text is never encoded; its q is a placeholder.
NoEmbedding == [vec |-> NoneText, cos |-> [p \in Phrases |-> 0]]

classify_intent(text, threshold) ==
    /\ \E q \in (IF IsBlank(text) THEN {NoEmbedding}
                 ELSE QueryEmbeddings(Normalize(text))) :
          LET r == ClassifyResult(intent_embeddings, text, q, threshold)
          IN  nlpOp' = [op |-> "classify", after |-> nlpOp, text |-> text,
                        threshold |-> threshold, q |-> q,
                        intent |-> r.intent, score |-> r.score,
                        calls |-> r.calls]
    /\ UNCHANGED <<intents, lists, intent_embeddings>>

-----------------------------------------------------------------------------
(* NLPProcessor.add_intent_examples *)

\* Line 260 stores the caller's list object itself, not a copy of it: a list
\* given for several new intents is one object under all of them.  An
\* element of `lists` is such an object, named by the set of the intents it
\* is stored under; the lists of __init__ are not among them.
Sharing(intent) ==
    IF \E held \in lists : intent \in held
    THEN CHOOSE held \in lists : intent \in held
    ELSE {intent}

\* The phrases in the list object `held`.
Items(held) == Get(intents, CHOOSE intent \in held : TRUE)

\* The catalog after lines 257-260: extend changes the list object in
\* place, and with it the phrases of every intent it is stored under.
Extended(cat, intent, examples) ==
    IF intent \in Keys(cat)
    THEN [n \in 1..Len(cat) |->
            IF cat[n].k \in Sharing(intent)
            THEN [k |-> cat[n].k, v |-> Get(cat, intent) \o examples]
            ELSE cat[n]]
    ELSE Put(cat, intent, examples)

\* The list objects in the catalog after line 260, when the list given is
\* the object `held` ({} for a list that is not in the catalog).
Stored(intent, held) ==
    IF intent \in Keys(intents) THEN lists
    ELSE (lists \ {held}) \cup {held \cup {intent}}

\* The phrases handed to model.encode at line 263.
EncodedByAdd(cat, intent) == Get(cat, intent)

add_intent_examples(intent, examples, held) ==
    LET cat == Extended(intents, intent, examples)
        encoded == EncodedByAdd(cat, intent)
    IN  /\ intents' = cat
        /\ lists' = Stored(intent, held)
        /\ intent_embeddings' =
               Put(intent_embeddings, intent, EncodeAll(Get(cat, intent)))
        /\ nlpOp' = [op |-> "add", intent |-> intent, examples |-> examples,
                     encoded |-> encoded]

-----------------------------------------------------------------------------
(* NLPProcessor.__init__ *)

\* The catalog of lines 24-108, cut down to two intents of one phrase each.
InitialIntents ==
    << [k |-> "greet", v |-> <<"hello">>],
       [k |-> "goodbye", v |-> <<"bye">>] >>

\* Lines 112-114: one embedding set per intent, in catalog order.
RECURSIVE Precompute(_)
Precompute(cat) ==
    IF cat = <<>> THEN <<>>
    ELSE <<[k |-> Head(cat).k, v |-> EncodeAll(Head(cat).v)]>>
             \o Precompute(Tail(cat))

Thresholds == 0..Scale

ExampleLists == UNION {[1..n -> Phrases] : n \in 1..MaxNew}

\* The lists a caller may give: a list that is in no catalog entry, or one
\* of the list objects it gave before for a new intent, with the phrases
\* that object holds by now.
GivenLists ==
    {[items |-> examples, held |-> {}] : examples \in ExampleLists}
        \cup {[items |-> Items(held), held |-> held] : held \in lists}

InitProcessor ==
    /\ intents = InitialIntents
    /\ lists = {}
    /\ intent_embeddings = Precompute(InitialIntents)
    /\ nlpOp = [op |-> "init"]

NoThreads ==
    /\ wr = [pc |-> "idle"]
    /\ rd = [r \in 1..NumReaders |-> [pc |-> "idle"]]

\* No chunk has been read.
NoData == [rms |-> "unread"]

\* No recording call is in progress.
NoRecording ==
    /\ fn = "none"
    /\ pc = "idle"
    /\ clock = 0
    /\ start_time = 0
    /\ last_read = 0
    /\ data = NoData
    /\ frames = <<>>
    /\ silence = 0
    /\ spoken = FALSE
    /\ full_text = <<>>
    /\ silence_counter = 0
    /\ last_partial = <<>>
    /\ has_spoken = FALSE
    /\ ret = [kind |-> "running"]

NoTurn == [route |-> "none"]

\* No conversation driver runs.
NoDriver ==
    /\ who = "none"
    /\ at = "idle"
    /\ running = FALSE
    /\ user_text = <<>>
    /\ turn = NoTurn
    /\ said = <<>>

\* REMINDERS_FILE does not exist.
NoFile == [type |-> "absent"]

\* ReminderSkill.__init__, reminder.py, lines 13-33, when there is no
\* reminders file: _load_reminders returns [].
InitReminders ==
    /\ reminders = <<>>
    /\ reminders_json = NoFile
    /\ rem_ret = [op |-> "init"]

InitNlp ==
    InitProcessor /\ NoThreads /\ NoRecording /\ NoDriver /\ InitReminders

\* A behaviour is any sequence of catalog mutations followed by the one
\* classification that is observed: classify_intent changes nothing of the
\* processor, so what it returns depends on the catalog alone.
Observed == nlpOp.op = "classify"

NextNlp ==
    \/ /\ ~Observed
       /\ \E text \in Texts, threshold \in Thresholds :
             classify_intent(text, threshold)
       /\ UNCHANGED <<concVars, vadVars, driveVars, remVars>>
    \/ /\ ~Observed
       /\ \E intent \in IntentNames, given \in GivenLists :
             /\ SumLen(intents) + Len(given.items) <= MaxPhrases
             /\ add_intent_examples(intent, given.items, given.held)
       /\ UNCHANGED <<concVars, vadVars, driveVars, remVars>>

SpecNlp == InitNlp /\ [][NextNlp]_vars

\* The catalog under a sequence of add_intent_examples calls.
Cat_Add(intent, given) ==
    /\ SumLen(intents) + Len(given.items) <= MaxCatalog
    /\ add_intent_examples(intent, given.items, given.held)
    /\ UNCHANGED <<concVars, vadVars, driveVars, remVars>>

NextCat == \E intent \in IntentNames, given \in GivenLists :
               Cat_Add(intent, given)

SpecCat == InitNlp /\ [][NextCat]_vars

-----------------------------------------------------------------------------
(* Threads on one NLPProcessor.  server.py serves process_text from a      *)
(* thread pool, so classify_intent runs in several threads at once; the    *)
(* class takes no lock anywhere.  Each thread makes one call, a statement  *)
(* at a time.                                                              *)

\* Texts and embeddings of the concurrent calls: one phrase, every cosine
\* to "hello", and a blank text.
ConcTexts == {"foo bar", "  "}

ConcEmbeddings ==
    {q \in QueryEmbeddings("foo bar") : q.cos["bye"] = 0}

\* classify_intent's default threshold, 0.5.
DefaultThreshold == Scale \div 2

\* add_intent_examples, lines 257-260: the catalog is updated.
W_Catalog(intent, examples) ==
    /\ wr.pc = "idle"
    /\ intents' = Extended(intents, intent, examples)
    /\ lists' = Stored(intent, {})
    /\ wr' = [pc |-> "catalog_updated", intent |-> intent,
              examples |-> examples]
    /\ UNCHANGED <<intent_embeddings, nlpOp, rd, vadVars, driveVars, remVars>>

\* Line 263, right-hand side: model.encode(self.intents[intent]).
W_Encode ==
    /\ wr.pc = "catalog_updated"
    /\ wr' = [wr EXCEPT !.pc = "encoded"] @@
             [enc |-> EncodeAll(Get(intents, wr.intent))]
    /\ UNCHANGED <<intents, lists, intent_embeddings, nlpOp, rd, vadVars, driveVars, remVars>>

\* Line 263, the assignment to self.intent_embeddings[intent].
W_Store ==
    /\ wr.pc = "encoded"
    /\ intent_embeddings' = Put(intent_embeddings, wr.intent, wr.enc)
    /\ wr' = [pc |-> "done", intent |-> wr.intent, examples |-> wr.examples]
    /\ UNCHANGED <<intents, lists, nlpOp, rd, vadVars, driveVars, remVars>>

\* The thread is between the start of its catalog update and the end of its
\* update of the embedding index.
Mutating == wr.pc \in {"catalog_updated", "encoded"}

\* classify_intent, lines 129-138: the blank test, the encoding of the text,
\* best_intent and best_score.
R_Begin(r, text) ==
    /\ rd[r].pc = "idle"
    /\ IF IsBlank(text)
       THEN rd' = [rd EXCEPT ![r] =
                     [pc |-> "returned", intent |-> "unknown", score |-> 0]]
       ELSE \E q \in ConcEmbeddings :
               rd' = [rd EXCEPT ![r] =
                        [pc |-> "encoded", q |-> q,
                         best |-> [intent |-> "unknown", score |-> 0]]]
    /\ UNCHANGED <<intents, lists, intent_embeddings, nlpOp, wr, vadVars, driveVars, remVars>>

\* Line 141: the iterator over self.intent_embeddings.items() is created; it
\* remembers the size of the dict.
R_Iter(r) ==
    /\ rd[r].pc = "encoded"
    /\ rd' = [rd EXCEPT ![r] =
                [pc |-> "loop", q |-> rd[r].q, best |-> rd[r].best,
                 size |-> Len(intent_embeddings), k |-> 1]]
    /\ UNCHANGED <<intents, lists, intent_embeddings, nlpOp, wr, vadVars, driveVars, remVars>>

\* Lines 141-154: the iterator's next item and the loop body, or the end of
\* the loop and the thresholding.  A dict whose size changed since the
\* iterator was created makes next() raise RuntimeError.
R_Step(r) ==
    /\ rd[r].pc = "loop"
    /\ LET me == rd[r]
       IN  IF Len(intent_embeddings) # me.size
           THEN rd' = [rd EXCEPT ![r] = [pc |-> "raised"]]
           ELSE IF me.k > me.size
           THEN rd' = [rd EXCEPT ![r] =
                         [pc |-> "returned",
                          intent |-> IF BelowThreshold(me.best.score,
                                                       DefaultThreshold)
                                     THEN "unknown" ELSE me.best.intent,
                          score |-> me.best.score]]
           ELSE LET max_similarity ==
                        MaxOf(Similarities(me.q, intent_embeddings[me.k].v))
                IN  rd' = [rd EXCEPT ![r] =
                             [me EXCEPT
                                !.k = me.k + 1,
                                !.best =
                                   IF Better(max_similarity, me.best.score)
                                   THEN [intent |-> intent_embeddings[me.k].k,
                                         score |-> max_similarity]
                                   ELSE me.best]]
    /\ UNCHANGED <<intents, lists, intent_embeddings, nlpOp, wr, vadVars, driveVars, remVars>>

NextConc ==
    \/ \E intent \in IntentNames, examples \in ExampleLists :
          W_Catalog(intent, examples)
    \/ W_Encode
    \/ W_Store
    \/ \E r \in 1..NumReaders, text \in ConcTexts : R_Begin(r, text)
    \/ \E r \in 1..NumReaders : R_Iter(r)
    \/ \E r \in 1..NumReaders : R_Step(r)

SpecConc == InitNlp /\ [][NextConc]_vars

-----------------------------------------------------------------------------
(* The recording loops: SmartFaceClient.record (client.py) and             *)
(* SpeechToText.listen (smartface/stt.py).  Time passes while stream.read  *)
(* blocks; a text is a sequence of words, "" the empty one.                *)

\* `time.time() - start_time > LISTEN_TIMEOUT` (TimedOutLate: one tick late)
TimedOutLate(elapsed) == elapsed > LISTEN_TIMEOUT + 1

TimedOut(elapsed) == elapsed > LISTEN_TIMEOUT

\* `rms > ENERGY_THRESHOLD` (IsSpeechAtOrAbove: with >=)
IsSpeechAtOrAbove(rms) == rms >= ENERGY_THRESHOLD

IsSpeech(rms) == rms > ENERGY_THRESHOLD

\* `silence > SILENCE_THRESHOLD` (SilenceReached: with >=)
SilenceReached(count) == count >= SILENCE_THRESHOLD

SilenceExceeded(count) == count > SILENCE_THRESHOLD

ReadTicks == 1..MaxReadTicks

Elapsed == clock - start_time

NoneValue == [type |-> "None"]

\* The WAV buffer of lines 191-202: a header and the frames joined.
Wav(fs) == [type |-> "bytes", frames |-> fs]

Str(words) == [type |-> "str", words |-> words]

\* " ".join(full_text).strip()
RECURSIVE Join(_)
Join(texts) == IF texts = <<>> THEN <<>> ELSE Head(texts) \o Join(Tail(texts))

\* record, line 152: the timeout check at the top of the loop.
Rec_Check ==
    /\ fn = "record" /\ pc = "check"
    /\ IF TimedOut(Elapsed)
       THEN /\ pc' = "after_loop"
            /\ ret' = [kind |-> "running", cause |-> "timeout"]
       ELSE /\ pc' = "read"
            /\ UNCHANGED ret
    /\ UNCHANGED <<clock, start_time, last_read, data, recVars, lisVars,
                   vadFrame>>

\* record, lines 157-174: a frame of RMS rms arrives after d ticks, is
\* appended, and the voice-activity bookkeeping and the silence check run.
Rec_Read(rms, d) ==
    /\ fn = "record" /\ pc = "read"
    /\ clock' = clock + d
    /\ last_read' = d
    /\ data' = [seq |-> Len(frames) + 1, rms |-> rms]
    /\ frames' = Append(frames, data')
    /\ LET spoken1 == spoken \/ IsSpeech(rms)
           silence1 == IF IsSpeech(rms) THEN 0
                       ELSE IF spoken THEN silence + 1 ELSE silence
       IN  /\ spoken' = spoken1
           /\ silence' = silence1
           /\ IF spoken1 /\ SilenceExceeded(silence1)
              THEN /\ pc' = "after_loop"
                   /\ ret' = [kind |-> "running", cause |-> "silence"]
              ELSE /\ pc' = "check"
                   /\ UNCHANGED ret
    /\ UNCHANGED <<start_time, lisVars, vadFrame>>

\* record, line 157: stream.read raises (an IOError of the device); the loop
\* has no handler for it, so it leaves record.
Rec_ReadFails(d) ==
    /\ fn = "record" /\ pc = "read"
    /\ clock' = clock + d
    /\ last_read' = d
    /\ pc' = "done"
    /\ ret' = [kind |-> "raised", exc |-> "IOError", cause |-> "read_error"]
    /\ UNCHANGED <<start_time, data, recVars, lisVars, vadFrame>>

\* record, lines 176-180: KeyboardInterrupt inside the loop.
Rec_Interrupt ==
    /\ fn = "record" /\ pc \in {"check", "read"}
    /\ pc' = "done"
    /\ ret' = [kind |-> "returned", value |-> NoneValue,
               cause |-> "interrupt"]
    /\ UNCHANGED <<clock, start_time, last_read, data, recVars, lisVars,
                   vadFrame>>

\* record, lines 190-202: None when nothing was spoken, or else the WAV
\* buffer of all the frames (RecordedAlways: without the test of line 190).
RecordedAlways(spoke, fs) == Wav(fs)

Recorded(spoke, fs) == IF ~spoke THEN NoneValue ELSE Wav(fs)

\* record, lines 186-202: after the loop.
Rec_Finish ==
    /\ fn = "record" /\ pc = "after_loop"
    /\ pc' = "done"
    /\ ret' = [kind |-> "returned", value |-> Recorded(spoken, frames),
               cause |-> ret.cause]
    /\ UNCHANGED <<clock, start_time, last_read, data, recVars, lisVars,
                   vadFrame>>

\* record, lines 194-207: writing the WAV buffer raises (the buffer of the
\* joined frames cannot be allocated); `except Exception` returns None.
Rec_WavFails ==
    /\ fn = "record" /\ pc = "after_loop"
    /\ spoken
    /\ pc' = "done"
    /\ ret' = [kind |-> "returned", value |-> NoneValue,
               cause |-> "wav_error"]
    /\ UNCHANGED <<clock, start_time, last_read, data, recVars, lisVars,
                   vadFrame>>

\* What the recognizer says of a chunk: AcceptWaveform's result, and the
\* text of Result() or the partial of PartialResult().
VoskTexts == {<<>>, <<"hi">>}

\* listen, line 99: the timeout check at the top of the loop.
Lis_Check ==
    /\ fn = "listen" /\ pc = "check"
    /\ IF TimedOut(Elapsed)
       THEN /\ pc' = "after_loop"
            /\ ret' = [kind |-> "running", cause |-> "timeout"]
       ELSE /\ pc' = "read"
            /\ UNCHANGED ret
    /\ UNCHANGED <<clock, start_time, last_read, data, recVars, lisVars,
                   vadFrame>>

\* listen, lines 104-135: a chunk of RMS rms arrives after d ticks and goes
\* through the recognizer; listen never measures the energy of the chunk.
Lis_Read(rms, accept, text, d) ==
    /\ fn = "listen" /\ pc = "read"
    /\ clock' = clock + d
    /\ last_read' = d
    /\ data' = [rms |-> rms]
    /\ LET heard == IF accept THEN text # <<>>
                    ELSE text # <<>> /\ text # last_partial
           spoken1 == has_spoken \/ heard
           counter1 == IF heard THEN 0
                       ELSE IF has_spoken THEN silence_counter + 1
                       ELSE silence_counter
       IN  /\ has_spoken' = spoken1
           /\ silence_counter' = counter1
           /\ full_text' = IF accept /\ heard THEN Append(full_text, text)
                           ELSE full_text
           /\ last_partial' = IF ~accept /\ heard THEN text ELSE last_partial
           /\ IF spoken1 /\ SilenceExceeded(counter1)
              THEN /\ pc' = "after_loop"
                   /\ ret' = [kind |-> "running", cause |-> "silence"]
              ELSE /\ pc' = "check"
                   /\ UNCHANGED ret
    /\ UNCHANGED <<start_time, recVars, vadFrame>>

\* listen, lines 140-142: stream.read raises; `except Exception` returns "".
Lis_ReadFails(d) ==
    /\ fn = "listen" /\ pc = "read"
    /\ clock' = clock + d
    /\ last_read' = d
    /\ pc' = "done"
    /\ ret' = [kind |-> "returned", value |-> Str(<<>>),
               cause |-> "read_error"]
    /\ UNCHANGED <<start_time, data, recVars, lisVars, vadFrame>>

\* listen, lines 137-139: KeyboardInterrupt inside the loop.
Lis_Interrupt ==
    /\ fn = "listen" /\ pc \in {"check", "read"}
    /\ pc' = "done"
    /\ ret' = [kind |-> "returned", value |-> Str(<<>>),
               cause |-> "interrupt"]
    /\ UNCHANGED <<clock, start_time, last_read, data, recVars, lisVars,
                   vadFrame>>

\* listen, lines 144-151: after the loop.
Lis_Finish ==
    /\ fn = "listen" /\ pc = "after_loop"
    /\ pc' = "done"
    /\ ret' = [kind |-> "returned", value |-> Str(Join(full_text)),
               cause |-> ret.cause]
    /\ UNCHANGED <<clock, start_time, last_read, data, recVars, lisVars,
                   vadFrame>>

\* record, lines 144-147, and listen, lines 90-94: the locals at the start.
InitVad ==
    /\ InitProcessor /\ NoThreads /\ NoDriver /\ InitReminders
    /\ fn \in {"record", "listen"}
    /\ pc = "check"
    /\ clock = 0
    /\ start_time = clock
    /\ last_read = 0
    /\ data = NoData
    /\ frames = <<>>
    /\ silence = 0
    /\ spoken = FALSE
    /\ full_text = <<>>
    /\ silence_counter = 0
    /\ last_partial = <<>>
    /\ has_spoken = FALSE
    /\ ret = [kind |-> "running"]

NextVad ==
    \/ Rec_Check
    \/ \E rms \in 0..MaxRms, d \in ReadTicks : Rec_Read(rms, d)
    \/ \E d \in ReadTicks : Rec_ReadFails(d)
    \/ Rec_Interrupt
    \/ Rec_Finish
    \/ Rec_WavFails
    \/ Lis_Check
    \/ \E rms \in 0..MaxRms, accept \in BOOLEAN, text \in VoskTexts,
          d \in ReadTicks :
          Lis_Read(rms, accept, text, d)
    \/ \E d \in ReadTicks : Lis_ReadFails(d)
    \/ Lis_Interrupt
    \/ Lis_Finish

SpecVad == InitVad /\ [][NextVad]_vars

-----------------------------------------------------------------------------
(* Python strings *)

\* A str is the sequence of its characters, each a one-character string.
ascii_uppercase == <<"A","B","C","D","E","F","G","H","I","J","K","L","M","N","O","P","Q","R","S","T","U","V","W","X","Y","Z">>

ascii_lowercase == <<"a","b","c","d","e","f","g","h","i","j","k","l","m","n","o","p","q","r","s","t","u","v","w","x","y","z">>

digits == <<"0","1","2","3","4","5","6","7","8","9">>

Range(s) == {s[i] : i \in DOMAIN s}

Least(S) == CHOOSE x \in S : \A y \in S : x <= y

Greatest(S) == CHOOSE x \in S : \A y \in S : y <= x

\* The position of character c in s, 0 when it is not there.
Index(c, s) ==
    LET found == {i \in DOMAIN s : s[i] = c}
    IN  IF found = {} THEN 0 ELSE Least(found)

\* str.isspace, \w and \d for one character.
IsSpace(c) == c \in {" ", "\n", "\t"}

IsWordChar(c) ==
    c \in Range(ascii_lowercase) \cup Range(ascii_uppercase)
              \cup Range(digits) \cup {"_"}

IsDigit(c) == c \in Range(digits)

IsAlpha(c) == c \in Range(ascii_lowercase) \cup Range(ascii_uppercase)

\* str.lower()
str_lower(s) ==
    [i \in DOMAIN s |->
        IF s[i] \in Range(ascii_uppercase)
        THEN ascii_lowercase[Index(s[i], ascii_uppercase)] ELSE s[i]]

\* str.strip()
str_strip(s) ==
    LET keep == {i \in DOMAIN s : ~IsSpace(s[i])}
    IN  IF keep = {} THEN <<>> ELSE SubSeq(s, Least(keep), Greatest(keep))

\* The positions at which k occurs in s.
Occurrences(k, s) ==
    {i \in 1..(Len(s) - Len(k) + 1) : SubSeq(s, i, i + Len(k) - 1) = k}

\* k in s
str_in(k, s) == Occurrences(k, s) # {}

\* any(k in s for k in ks)
any_in(ks, s) == \E n \in DOMAIN ks : str_in(ks[n], s)

\* s.split(k, 1)[-1]
split_last(s, k) ==
    IF str_in(k, s)
    THEN SubSeq(s, Least(Occurrences(k, s)) + Len(k), Len(s)) ELSE s

\* str.title(): a letter that follows a letter is lowered, any other letter
\* is raised.
str_title(s) ==
    [i \in DOMAIN s |->
        IF i > 1 /\ IsAlpha(s[i - 1])
        THEN str_lower(<<s[i]>>)[1]
        ELSE IF s[i] \in Range(ascii_lowercase)
             THEN ascii_uppercase[Index(s[i], ascii_lowercase)] ELSE s[i]]

\* int(s) for a run of digits.
RECURSIVE int(_)
int(s) ==
    IF s = <<>> THEN 0
    ELSE 10 * int(SubSeq(s, 1, Len(s) - 1)) + (Index(s[Len(s)], digits) - 1)

\* re.findall(r'\d+', s): the maximal runs of digits, the first one first.
RECURSIVE findall_digits(_)
findall_digits(s) ==
    LET ds == {i \in DOMAIN s : IsDigit(s[i])} IN
    IF ds = {} THEN <<>>
    ELSE LET b == Least(ds)
             e == Greatest({j \in b..Len(s) : \A i \in b..j : IsDigit(s[i])})
         IN  <<SubSeq(s, b, e)>> \o findall_digits(SubSeq(s, e + 1, Len(s)))

\* r'\b' + phrase + r'\b' matches s at position i, ignoring case; phrase
\* begins and ends with a word character.
MatchesWordAt(phrase, s, i) ==
    /\ i + Len(phrase) - 1 <= Len(s)
    /\ str_lower(SubSeq(s, i, i + Len(phrase) - 1)) = phrase
    /\ i = 1 \/ ~IsWordChar(s[i - 1])
    /\ i + Len(phrase) - 1 = Len(s) \/ ~IsWordChar(s[i + Len(phrase)])

\* re.sub(r'\b' + phrase + r'\b', '', s, flags=re.IGNORECASE), from
\* position i on: the matches are found left to right and do not overlap.
RECURSIVE re_sub_from(_, _, _)
re_sub_from(phrase, s, i) ==
    IF i > Len(s) THEN <<>>
    ELSE IF MatchesWordAt(phrase, s, i)
         THEN re_sub_from(phrase, s, i + Len(phrase))
         ELSE <<s[i]>> \o re_sub_from(phrase, s, i + 1)

re_sub(phrase, s) == re_sub_from(phrase, s, 1)

-----------------------------------------------------------------------------
(* NLPProcessor.extract_entities *)

\* A Python dict of entities is a function from the keys it holds.
NoEntities == <<>>

Has(d, k) == k \in DOMAIN d

\* d.get(k, default)
get(d, k, default) == IF Has(d, k) THEN d[k] ELSE default

\* The first of ks that occurs in s: for k in ks: if k in s: ...; break
FirstIn(ks, s) == ks[Least({n \in DOMAIN ks : str_in(ks[n], s)})]

rooms ==
    <<<<"l","i","v","i","n","g"," ","r","o","o","m">>, <<"b","e","d","r","o","o","m">>, <<"k","i","t","c","h","e","n">>, <<"b","a","t","h","r","o","o","m">>, <<"g","a","r","a","g","e">>>>

question_words ==
    <<<<"w","h","a","t">>, <<"w","h","o">>, <<"w","h","e","r","e">>, <<"w","h","e","n">>, <<"w","h","y">>, <<"h","o","w">>,
      <<"t","e","l","l"," ","m","e"," ","a","b","o","u","t">>, <<"s","e","a","r","c","h">>>>

search_phrases ==
    <<<<"s","e","a","r","c","h"," ","f","o","r">>, <<"l","o","o","k"," ","u","p">>, <<"f","i","n","d">>, <<"w","h","a","t"," ","i","s">>, <<"w","h","o"," ","i","s">>,
      <<"t","e","l","l"," ","m","e"," ","a","b","o","u","t">>, <<"g","o","o","g","l","e">>, <<"s","e","a","r","c","h">>, <<"w","h","a","t"," ","a","r","e">>, <<"w","h","o"," ","a","r","e">>,
      <<"w","h","e","r","e"," ","i","s">>, <<"w","h","e","n"," ","i","s">>, <<"w","h","y"," ","i","s">>, <<"h","o","w"," ","i","s">>>>

cities ==
    <<<<"m","o","h","a","l","i">>, <<"c","h","a","n","d","i","g","a","r","h">>, <<"d","e","l","h","i">>, <<"m","u","m","b","a","i">>, <<"b","a","n","g","a","l","o","r","e">>,
      <<"h","y","d","e","r","a","b","a","d">>, <<"c","h","e","n","n","a","i">>, <<"k","o","l","k","a","t","a">>, <<"p","u","n","e">>, <<"a","h","m","e","d","a","b","a","d">>,
      <<"j","a","i","p","u","r">>, <<"l","u","c","k","n","o","w">>, <<"k","a","n","p","u","r">>, <<"n","a","g","p","u","r">>, <<"i","n","d","o","r","e">>,
      <<"p","a","r","i","s">>, <<"l","o","n","d","o","n">>, <<"n","e","w"," ","y","o","r","k">>, <<"t","o","k","y","o">>, <<"b","e","i","j","i","n","g">>,
      <<"s","y","d","n","e","y">>, <<"t","o","r","o","n","t","o">>, <<"b","e","r","l","i","n">>, <<"m","a","d","r","i","d">>, <<"r","o","m","e">>>>

forecast_keywords ==
    <<<<"t","o","m","o","r","r","o","w">>, <<"f","o","r","e","c","a","s","t">>, <<"n","e","x","t">>, <<"w","e","e","k">>, <<"c","o","m","i","n","g">>,
      <<"t","h","r","e","e"," ","d","a","y">>, <<"3"," ","d","a","y">>, <<"w","e","e","k","l","y">>, <<"u","p","c","o","m","i","n","g">>, <<"f","u","t","u","r","e">>>>

reminder_patterns ==
    <<<<"r","e","m","i","n","d"," ","m","e"," ","t","o">>, <<"r","e","m","i","n","d"," ","m","e">>, <<"r","e","m","i","n","d","e","r"," ","t","o">>,
      <<"d","o","n","'","t"," ","l","e","t"," ","m","e"," ","f","o","r","g","e","t"," ","t","o">>, <<"r","e","m","e","m","b","e","r"," ","t","o">>>>

\* Lines 191-197: the search phrases are removed one after the other.
RECURSIVE strip_phrases(_, _)
strip_phrases(phrases, query) ==
    IF phrases = <<>> THEN query
    ELSE strip_phrases(Tail(phrases), re_sub(Head(phrases), query))

LikelySearchAnyIntent(intent, is_question) == is_question

\* Line 187: when the query is computed.
QueryComputed(intent, is_question) ==
    intent = "web_search" \/ is_question \/ intent = "unknown"

\* Line 201: when likely_search is set.
LikelySearch(intent, is_question) == is_question /\ intent = "unknown"

\* Lines 170-175: rooms.
extract_room(text_lower) ==
    IF any_in(rooms, text_lower)
    THEN "room" :> FirstIn(rooms, text_lower) ELSE NoEntities

\* Lines 177-181: numbers.
extract_number(text) ==
    IF findall_digits(text) # <<>>
    THEN "number" :> int(findall_digits(text)[1]) ELSE NoEntities

\* Lines 183-202: query and likely_search.
extract_query(text, text_lower, intent) ==
    LET is_question == any_in(question_words, text_lower) IN
    IF QueryComputed(intent, is_question)
    THEN ("query" :> str_strip(strip_phrases(search_phrases, text)))
         @@ (IF LikelySearch(intent, is_question)
             THEN "likely_search" :> TRUE ELSE NoEntities)
    ELSE NoEntities

\* Lines 205-229: city and forecast.
extract_weather(text_lower, intent) ==
    IF intent = "weather"
    THEN (IF any_in(cities, text_lower)
          THEN "city" :> str_title(FirstIn(cities, text_lower))
          ELSE NoEntities)
         @@ ("forecast" :> any_in(forecast_keywords, text_lower))
    ELSE NoEntities

\* Lines 232-245: reminder_text.
extract_reminder(text, text_lower, intent) ==
    IF intent = "reminder_set"
    THEN "reminder_text" :>
            (IF any_in(reminder_patterns, text_lower)
             THEN str_strip(split_last(text,
                                       FirstIn(reminder_patterns, text_lower)))
             ELSE text)
    ELSE NoEntities

extract_entities(text, intent) ==
    LET text_lower == str_lower(text) IN
    extract_room(text_lower) @@ extract_number(text)
        @@ extract_query(text, text_lower, intent)
        @@ extract_weather(text_lower, intent)
        @@ extract_reminder(text, text_lower, intent)

-----------------------------------------------------------------------------
(* The routers: SmartFace._process_input and the server's generate_response *)

\* What a call ends with: a text, None, or an exception.
Returned(t) == [kind |-> "returned", text |-> t]

ReturnedNone == [kind |-> "none"]

Raised == [kind |-> "raised"]

\* A call of a collaborator, and what a handler hands back: the calls it
\* made and how it ended.
Call(op, args) == [op |-> op, args |-> args]

Answer(t) == [calls |-> <<>>, ret |-> Returned(t)]

Delegate(op, args, outcome) ==
    [calls |-> <<Call(op, args)>>, ret |-> outcome]

\* Truthiness of d.get(k) for an int, a str and a bool.
truthy_int(d, k) == Has(d, k) /\ d[k] # 0

is_present(d, k) == Has(d, k)

truthy_str(d, k) == Has(d, k) /\ d[k] # <<>>

truthy_bool(d, k) == Has(d, k) /\ d[k]

\* entities.get(k): the value or None.
get_or_none(d, k) == IF Has(d, k) THEN d[k] ELSE NoneValue

paragraph_break == <<"\n","\n">>

split_at_last(s, k) ==
    IF str_in(k, s)
    THEN LET i == Greatest(Occurrences(k, s))
         IN  <<SubSeq(s, 1, i - 1), SubSeq(s, i + Len(k), Len(s))>>
    ELSE <<s>>

\* s.split(k)
RECURSIVE str_split(_, _)
str_split(s, k) ==
    IF str_in(k, s)
    THEN LET i == Least(Occurrences(k, s))
         IN  <<SubSeq(s, 1, i - 1)>>
                 \o str_split(SubSeq(s, i + Len(k), Len(s)), k)
    ELSE <<s>>

\* s[:n]
str_prefix(s, n) == SubSeq(s, 1, IF n < Len(s) THEN n ELSE Len(s))

exit_commands == {<<"e","x","i","t">>, <<"q","u","i","t">>, <<"s","t","o","p">>}

canned_intents ==
    {"greet", "goodbye", "how_are_you", "thank", "name", "help", "joke",
     "time", "date"}

AskSearch == <<"W","h","a","t"," ","w","o","u","l","d"," ","y","o","u"," ","l","i","k","e"," ","m","e"," ","t","o"," ","s","e","a","r","c","h"," ","f","o","r","?">>

KnowMore == <<".",".","."," ","W","o","u","l","d"," ","y","o","u"," ","l","i","k","e"," ","t","o"," ","k","n","o","w"," ","m","o","r","e","?">>

AskReminder == <<"W","h","a","t"," ","w","o","u","l","d"," ","y","o","u"," ","l","i","k","e"," ","m","e"," ","t","o"," ","r","e","m","i","n","d"," ","y","o","u"," ","a","b","o","u","t","?">>

NotSureReminders == <<"I","'","m"," ","n","o","t"," ","s","u","r","e"," ","w","h","a","t"," ","y","o","u"," ","w","a","n","t"," ","t","o"," ","d","o"," ","w","i","t","h"," ","r","e","m","i","n","d","e","r","s",".">>

AskTemperature == <<"W","h","a","t"," ","t","e","m","p","e","r","a","t","u","r","e"," ","w","o","u","l","d"," ","y","o","u"," ","l","i","k","e"," ","t","o"," ","s","e","t","?">>

NotSureDevices == <<"I","'","m"," ","n","o","t"," ","s","u","r","e"," ","w","h","a","t"," ","y","o","u"," ","w","a","n","t"," ","t","o"," ","d","o"," ","w","i","t","h"," ","y","o","u","r"," ","d","e","v","i","c","e","s",".">>

OfferSearch(query) ==
    <<"I","'","m"," ","n","o","t"," ","s","u","r","e"," ","w","h","a","t"," ","y","o","u","'","r","e"," ","a","s","k","i","n","g",","," ","b","u","t"," ","I"," ","c","a","n"," ","s","e","a","r","c","h"," ","f","o","r"," ","i","n","f","o","r","m","a","t","i","o","n","."," ","W","o","u","l","d"," ","y","o","u"," ","l","i","k","e"," ","m","e"," ","t","o"," ","s","e","a","r","c","h"," ","f","o","r"," ","'">>
        \o query \o <<"'","?">>

\* main.py, lines 180-188: the summary of a search result.
summarize(result) ==
    IF Len(result) > SUMMARY_LIMIT
    THEN LET parts == str_split(result, paragraph_break)
         IN  IF Len(parts) > 1 THEN parts[1]
             ELSE str_prefix(result, SUMMARY_LIMIT) \o KnowMore
    ELSE result

handle_web_search(entities, out) ==
    LET query == str_strip(get(entities, "query", <<>>)) IN
    IF query = <<>> THEN Answer(AskSearch)
    ELSE Delegate("search", <<query>>,
                  IF out.kind = "returned"
                  THEN Returned(summarize(out.text)) ELSE out)

handle_reminder(intent, entities, out) ==
    IF intent = "reminder_set"
    THEN LET reminder_text == str_strip(get(entities, "reminder_text", <<>>))
         IN  IF reminder_text = <<>> THEN Answer(AskReminder)
             ELSE Delegate("add_reminder", <<reminder_text>>, out)
    ELSE IF intent = "reminder_list"
         THEN Delegate("list_reminders", <<>>, out)
         ELSE Answer(NotSureReminders)

handle_smart_home(intent, entities, out) ==
    CASE intent = "light_on" ->
            Delegate("turn_on_light", <<get_or_none(entities, "room")>>, out)
      [] intent = "light_off" ->
            Delegate("turn_off_light", <<get_or_none(entities, "room")>>, out)
      [] intent = "temperature_set" ->
            IF truthy_int(entities, "number")
            THEN Delegate("set_temperature", <<entities["number"]>>, out)
            ELSE Answer(AskTemperature)
      [] intent = "device_status" -> Delegate("get_status", <<>>, out)
      [] OTHER -> Answer(NotSureDevices)

handle_weather(entities, text, out) ==
    Delegate("weather.handle", <<"weather", entities, text>>, out)

\* main.py, lines 138-168: the dispatch on the intent.
dispatch(text, classified, entities, out) ==
    LET intent == IF classified = "unknown" /\ truthy_bool(entities, "likely_search")
                  THEN "web_search" ELSE classified
    IN  IF intent \in canned_intents
        THEN Delegate("generate_response", <<intent>>, out)
        ELSE IF intent = "web_search"
        THEN handle_web_search(entities, out)
        ELSE IF intent \in {"reminder_set", "reminder_list"}
        THEN handle_reminder(intent, entities, out)
        ELSE IF intent \in {"light_on", "light_off", "temperature_set",
                            "device_status"}
        THEN handle_smart_home(intent, entities, out)
        ELSE IF intent \in {"weather", "weather_city"}
        THEN handle_weather(entities, text, out)
        ELSE IF truthy_str(entities, "query")
        THEN Answer(OfferSearch(entities["query"]))
        ELSE Delegate("generate_response", <<"unknown">>, out)

\* tts.speak(text) and the client's speak(text): nothing is spoken for an
\* empty text.
speak(text) == IF text = <<>> THEN <<>> ELSE <<text>>

\* main.py, lines 129-168.  intent is what classify_intent returned for the
\* text, entities what extract_entities returned, out what the collaborator
\* that is called ends with.
process_input(text, intent, entities, out) ==
    IF intent = "goodbye" \/ str_lower(text) \in exit_commands
    THEN [route |-> "exit", intent |-> intent, entities |-> entities,
          calls |-> <<Call("generate_response", <<"goodbye">>)>>, out |-> out,
          ret |-> IF out.kind = "raised" THEN Raised ELSE ReturnedNone,
          spoke |-> IF out.kind = "returned" THEN speak(out.text) ELSE <<>>,
          running |-> out.kind = "raised"]
    ELSE LET r == dispatch(text, intent, entities, out)
         IN  [route |-> "dispatch", intent |-> intent, entities |-> entities,
              calls |-> r.calls, out |-> out, ret |-> r.ret,
              spoke |-> <<>>, running |-> TRUE]

AskReminderShort == <<"W","h","a","t"," ","s","h","o","u","l","d"," ","I"," ","r","e","m","i","n","d"," ","y","o","u"," ","a","b","o","u","t","?">>

AskTemperatureShort == <<"W","h","a","t"," ","t","e","m","p","e","r","a","t","u","r","e","?">>

\* server.py, lines 207-211.
truncate(result) ==
    IF Len(result) > SUMMARY_LIMIT
    THEN LET parts == str_split(result, paragraph_break)
         IN  IF parts # <<>> THEN parts[1]
             ELSE str_prefix(result, SUMMARY_LIMIT)
    ELSE result

\* server.py, lines 195-241.
generate_response(intent, entities, text, out) ==
    IF intent \in canned_intents
    THEN Delegate("generate_response", <<intent>>, out)
    ELSE IF intent = "web_search" \/ truthy_bool(entities, "likely_search")
    THEN Delegate("search", <<get(entities, "query", text)>>,
                  IF out.kind = "returned"
                  THEN Returned(truncate(out.text)) ELSE out)
    ELSE IF intent = "reminder_set"
    THEN IF truthy_str(entities, "reminder_text")
         THEN Delegate("add_reminder", <<entities["reminder_text"]>>, out)
         ELSE Answer(AskReminderShort)
    ELSE IF intent = "reminder_list"
    THEN Delegate("list_reminders", <<>>, out)
    ELSE IF intent = "light_on"
    THEN Delegate("turn_on_light", <<get_or_none(entities, "room")>>, out)
    ELSE IF intent = "light_off"
    THEN Delegate("turn_off_light", <<get_or_none(entities, "room")>>, out)
    ELSE IF intent = "temperature_set"
    THEN IF truthy_int(entities, "number")
         THEN Delegate("set_temperature", <<entities["number"]>>, out)
         ELSE Answer(AskTemperatureShort)
    ELSE IF intent = "device_status"
    THEN Delegate("get_status", <<>>, out)
    ELSE IF intent \in {"weather", "weather_city"}
    THEN Delegate("weather.handle", <<intent, entities, text>>, out)
    ELSE Delegate("generate_response", <<"unknown">>, out)

\* server.py, lines 184-193: the routing of one query and the dict it
\* returns, or the exception that leaves it.
process_query(text, intent, entities, out) ==
    LET r == generate_response(intent, entities, text, out)
    IN  [route |-> "dispatch", intent |-> intent, entities |-> entities,
         calls |-> r.calls, out |-> out, ret |-> r.ret,
         result |-> IF r.ret.kind = "returned"
                    THEN [kind |-> "dict", text |-> text, intent |-> intent,
                          entities |-> entities, response |-> r.ret.text]
                    ELSE Raised]

-----------------------------------------------------------------------------
(* The conversation drivers: SmartFace._conversation_loop, SmartFaceClient.run
   with the server's process_audio, and the server's process_text *)

\* What classify_intent may return: the intents of the catalog of nlp.py,
\* lines 24-104, "unknown", and intents added with add_intent_examples.
ClassifiedIntents ==
    {"greet", "goodbye", "how_are_you", "thank", "weather", "time", "date",
     "joke", "name", "help", "web_search", "reminder_set", "reminder_list",
     "light_on", "light_off", "temperature_set", "device_status",
     "unknown", "weather_city", "music_play"}

\* What the user says.
Utterances ==
    {<<"h","e","l","l","o">>, <<"s","t","o","p">>, <<"Q","u","i","t">>, <<"s","e","t"," ","t","e","m","p","e","r","a","t","u","r","e"," ","t","o"," ","0">>,
     <<"s","e","t"," ","t","e","m","p","e","r","a","t","u","r","e"," ","t","o"," ","2","2">>, <<"s","e","t"," ","t","h","e"," ","t","e","m","p","e","r","a","t","u","r","e">>,
     <<"r","e","m","i","n","d"," ","m","e"," ","t","o"," ","b","u","y"," ","m","i","l","k">>, <<"r","e","m","i","n","d"," ","m","e"," ","t","o">>, <<"s","e","a","r","c","h"," ","f","o","r">>,
     <<"w","h","a","t"," ","i","s"," ","p","y","t","h","o","n">>, <<"w","h","a","t"," ","i","s">>, <<"w","e","a","t","h","e","r"," ","i","n"," ","p","a","r","i","s"," ","t","o","m","o","r","r","o","w">>, <<"s","h","o","w"," ","d","e","v","i","c","e","s">>,
     <<"k","i","t","c","h","e","n"," ","l","i","g","h","t">>, <<"p","l","a","y"," ","m","u","s","i","c">>}

\* The texts posted to /process_text: also empty and blank ones.
PostedTexts == Utterances \cup {<<>>, <<" "," ">>, <<" ","h","e","l","l","o"," ">>}

\* nlp.extract_entities(text, intent) for every text that is routed.
Extracted ==
    [text \in Utterances \cup {str_strip(t) : t \in PostedTexts},
     intent \in ClassifiedIntents |-> extract_entities(text, intent)]

\* What a skill or the response handler answers.
ReplyTexts == {<<"O","K",".">>}

\* What the search skill answers: any text of letters and newlines.
SearchResults ==
    UNION {[1..n -> {"a", "\n"}] : n \in 1..(SUMMARY_LIMIT + MaxExcess)}

\* How a call of a collaborator may end: of the search skill, and of the
\* others.
SearchOutcomes == {Raised} \cup {Returned(t) : t \in SearchResults}

ReplyOutcomes == {Raised} \cup {Returned(t) : t \in ReplyTexts}

Outcomes(op) == IF op = "search" THEN SearchOutcomes ELSE ReplyOutcomes

\* The outcome of a routing that calls no collaborator.
NoOutcome == [kind |-> "unused"]

\* How a routing that makes these calls may go; which calls it makes does
\* not depend on that.
OutcomesOf(calls) ==
    IF calls = <<>> THEN {NoOutcome} ELSE Outcomes(calls[1].op)

NoHttp == [status |-> 0]

DidntCatchRetry == <<"I"," ","d","i","d","n","'","t"," ","c","a","t","c","h"," ","t","h","a","t","."," ","P","l","e","a","s","e"," ","t","r","y"," ","a","g","a","i","n",".">>

DidntCatch == <<"I"," ","d","i","d","n","'","t"," ","c","a","t","c","h"," ","t","h","a","t",".">>

HadTrouble == <<"S","o","r","r","y",","," ","I"," ","h","a","d"," ","t","r","o","u","b","l","e"," ","w","i","t","h"," ","t","h","a","t",".">>

\* What a step of a driver leaves alone.
driveFrame == <<intents, lists, intent_embeddings, nlpOp, wr, rd, vadVars,
                remVars>>

\* main.py, lines 90-105: stt.listen() returns, with a text or with nothing.
Loop_Listen(text) ==
    /\ who = "SmartFace" /\ at = "listen" /\ running
    /\ user_text' = text
    /\ turn' = NoTurn
    /\ IF text = <<>>
       THEN said' = speak(DidntCatchRetry) /\ at' = "listen"
       ELSE said' = <<>> /\ at' = "heard"
    /\ UNCHANGED <<who, running, driveFrame>>

\* main.py, lines 108-114 and 90, with _process_input; start, lines 77-86,
\* when an exception leaves the loop.
Loop_Process(intent) ==
    /\ who = "SmartFace" /\ at = "heard"
    /\ LET entities == Extracted[user_text, intent] IN
       \E out \in OutcomesOf(process_input(user_text, intent, entities,
                                            NoOutcome).calls) :
       LET r == process_input(user_text, intent, entities, out) IN
          /\ turn' = [route |-> r.route, text |-> user_text,
                      intent |-> r.intent, entities |-> r.entities,
                      calls |-> r.calls, out |-> r.out, ret |-> r.ret,
                      http |-> NoHttp]
          /\ IF r.ret.kind = "raised"
             THEN /\ said' = r.spoke
                  /\ at' = "ended"
                  /\ UNCHANGED running
             ELSE /\ said' = r.spoke \o (IF r.ret.kind = "returned"
                                          THEN speak(r.ret.text) ELSE <<>>)
                  /\ running' = r.running
                  /\ at' = IF r.running THEN "listen" ELSE "ended"
    /\ UNCHANGED <<who, user_text, driveFrame>>

\* client.py, lines 292-296: record() returns None.
Run_RecordNothing ==
    /\ who = "SmartFaceClient" /\ at = "listen"
    /\ user_text' = <<>>
    /\ turn' = NoTurn
    /\ said' = speak(DidntCatch)
    /\ UNCHANGED <<who, at, running, driveFrame>>

\* client.py, line 292: record() returns an utterance; text is what is said
\* in it, nothing for noise.
Run_Record(text) ==
    /\ who = "SmartFaceClient" /\ at = "listen"
    /\ user_text' = text
    /\ turn' = NoTurn
    /\ said' = <<>>
    /\ at' = "heard"
    /\ UNCHANGED <<who, running, driveFrame>>

\* client.py, lines 299-307 with send, lines 209-233: the request fails.
Run_SendFails ==
    /\ who = "SmartFaceClient" /\ at = "heard"
    /\ turn' = [route |-> "unsent", http |-> NoHttp]
    /\ said' = speak(HadTrouble)
    /\ at' = "listen"
    /\ UNCHANGED <<who, running, user_text, driveFrame>>

\* server.py, lines 112-123 and 137-142: what an endpoint answers after
\* process_query, the status and the JSON body.
Answered(q) ==
    IF q.result.kind = "raised"
    THEN [status |-> 500, body |-> [detail |-> "error"]]
    ELSE [status |-> 200, body |-> q.result]

\* server.py, lines 106-110.
NoSpeechDetected ==
    [status |-> 400, body |-> [error |-> "No speech detected",
                               response |-> DidntCatch]]

\* client.py, lines 299-326, with the server's process_audio.
Run_Send(intent) ==
    /\ who = "SmartFaceClient" /\ at = "heard"
    /\ IF user_text = <<>>
       THEN /\ turn' = [route |-> "no speech", http |-> NoSpeechDetected]
            /\ said' = speak(HadTrouble)
            /\ at' = "listen"
       ELSE LET entities == Extracted[user_text, intent] IN
            \E out \in OutcomesOf(process_query(user_text, intent, entities,
                                                 NoOutcome).calls) :
            LET q == process_query(user_text, intent, entities, out)
                result == Answered(q).body
                response == get(result, "response", <<>>)
            IN  /\ turn' = [route |-> q.route, text |-> user_text,
                            intent |-> q.intent, entities |-> q.entities,
                            calls |-> q.calls, out |-> q.out, ret |-> q.ret,
                            http |-> Answered(q)]
                /\ said' = IF Has(result, "error") THEN speak(HadTrouble)
                           ELSE speak(response)
                /\ at' = IF /\ ~Has(result, "error")
                            /\ get(result, "intent", "") = "goodbye"
                         THEN "ended" ELSE "listen"
    /\ UNCHANGED <<who, running, user_text, driveFrame>>

\* A request for /process_text arrives.
Post(text) ==
    /\ who = "process_text" /\ at = "listen"
    /\ user_text' = text
    /\ turn' = NoTurn
    /\ at' = "heard"
    /\ UNCHANGED <<who, running, said, driveFrame>>

\* server.py, lines 125-142.
process_text(intent) ==
    /\ who = "process_text" /\ at = "heard"
    /\ LET text == str_strip(user_text)
           entities == Extracted[text, intent]
       IN
       IF text = <<>>
       THEN turn' = [route |-> "empty", text |-> text, intent |-> "",
                     entities |-> NoEntities,
                     calls |-> <<>>, out |-> NoOutcome, ret |-> Raised,
                     http |-> [status |-> 500,
                               body |-> [detail |-> "400: Empty text"]]]
       ELSE \E out \in OutcomesOf(process_query(text, intent, entities,
                                                 NoOutcome).calls) :
            LET q == process_query(text, intent, entities, out) IN
            turn' = [route |-> q.route, text |-> text, intent |-> q.intent,
                     entities |-> q.entities, calls |-> q.calls,
                     out |-> q.out, ret |-> q.ret, http |-> Answered(q)]
    /\ at' = "listen"
    /\ UNCHANGED <<who, running, user_text, said, driveFrame>>

InitDrive ==
    /\ InitProcessor /\ NoThreads /\ NoRecording /\ InitReminders
    /\ who \in {"SmartFace", "SmartFaceClient", "process_text"}
    /\ at = "listen"
    /\ running = TRUE
    /\ user_text = <<>>
    /\ turn = NoTurn
    /\ said = <<>>

NextDrive ==
    \/ \E text \in Utterances \cup {<<>>} : Loop_Listen(text)
    \/ \E intent \in ClassifiedIntents : Loop_Process(intent)
    \/ Run_RecordNothing
    \/ \E text \in Utterances \cup {<<>>} : Run_Record(text)
    \/ Run_SendFails
    \/ \E intent \in ClassifiedIntents : Run_Send(intent)
    \/ \E text \in PostedTexts : Post(text)
    \/ \E intent \in ClassifiedIntents : process_text(intent)

SpecDrive == InitDrive /\ [][NextDrive]_vars

-----------------------------------------------------------------------------
(* ReminderSkill (smartface/skills/reminder.py).  A reminder is a record    *)
(* of its id, text and completed flag; its creation time, which nothing     *)
(* reads, is left out.                                                      *)

\* What add_reminder is called with: texts, also blank ones.
ReminderTexts == {<<"a">>, <<" ", "a", " ">>, <<" ">>, <<>>}

ReminderIds == 1..MaxReminders

\* The file after an interrupted write.
PartialFile == [type |-> "partial"]

File(rs) == [type |-> "json", reminders |-> rs]

\* _save_reminders, lines 35-43: the list is written and True returned, or
\* open or json.dump raises and False is returned; the file is then as it
\* was, or holds a part of the text.
Saves(rs) ==
    {[ok |-> TRUE, file |-> File(rs)],
     [ok |-> FALSE, file |-> reminders_json],
     [ok |-> FALSE, file |-> PartialFile]}

\* `len(self.reminders) + 1`
NextId(rs) == Len(rs) + 1

\* The indices of the reminders with this id, and the one the loops of
\* complete_reminder and delete_reminder stop at.
WithId(rs, reminder_id) == {n \in 1..Len(rs) : rs[n].id = reminder_id}

FirstWithId(rs, reminder_id) == Least(WithId(rs, reminder_id))

\* rs without its n-th item: list.pop(n)
Popped(rs, n) == SubSeq(rs, 1, n - 1) \o SubSeq(rs, n + 1, Len(rs))

NotCompleted(r) == ~r.completed

\* add_reminder, lines 45-71.
add_reminder(text) ==
    /\ Len(reminders) < MaxReminders
    /\ IF str_strip(text) = <<>>
       THEN /\ rem_ret' = [op |-> "add_reminder", say |-> "need_text"]
            /\ UNCHANGED <<reminders, reminders_json>>
       ELSE LET reminder == [id |-> NextId(reminders),
                             text |-> str_strip(text),
                             completed |-> FALSE]
            IN  /\ reminders' = Append(reminders, reminder)
                /\ \E save \in Saves(reminders') :
                      /\ reminders_json' = save.file
                      /\ rem_ret' = [op |-> "add_reminder",
                                     say |-> IF save.ok THEN "added"
                                             ELSE "trouble",
                                     id |-> reminder.id]
    /\ UNCHANGED <<nlpVars, concVars, vadVars, driveVars>>

\* complete_reminder, lines 93-112.
complete_reminder(reminder_id) ==
    /\ IF WithId(reminders, reminder_id) = {}
       THEN /\ rem_ret' = [op |-> "complete_reminder", say |-> "not_found"]
            /\ UNCHANGED <<reminders, reminders_json>>
       ELSE LET n == FirstWithId(reminders, reminder_id)
            IN  /\ reminders' = [reminders EXCEPT ![n].completed = TRUE]
                /\ \E save \in Saves(reminders') :
                      /\ reminders_json' = save.file
                      /\ rem_ret' = [op |-> "complete_reminder",
                                     say |-> IF save.ok THEN "completed"
                                             ELSE "trouble"]
    /\ UNCHANGED <<nlpVars, concVars, vadVars, driveVars>>

\* delete_reminder, lines 114-133.
delete_reminder(reminder_id) ==
    /\ IF WithId(reminders, reminder_id) = {}
       THEN /\ rem_ret' = [op |-> "delete_reminder", say |-> "not_found"]
            /\ UNCHANGED <<reminders, reminders_json>>
       ELSE LET n == FirstWithId(reminders, reminder_id)
            IN  /\ reminders' = Popped(reminders, n)
                /\ \E save \in Saves(reminders') :
                      /\ reminders_json' = save.file
                      /\ rem_ret' = [op |-> "delete_reminder",
                                     say |-> IF save.ok THEN "deleted"
                                             ELSE "trouble"]
    /\ UNCHANGED <<nlpVars, concVars, vadVars, driveVars>>

\* clear_completed, lines 135-154.
clear_completed ==
    /\ reminders' = SelectSeq(reminders, NotCompleted)
    /\ IF Len(reminders) - Len(reminders') = 0
       THEN /\ rem_ret' = [op |-> "clear_completed", say |-> "none"]
            /\ UNCHANGED reminders_json
       ELSE \E save \in Saves(reminders') :
               /\ reminders_json' = save.file
               /\ rem_ret' = [op |-> "clear_completed",
                              say |-> IF save.ok THEN "cleared"
                                      ELSE "trouble"]
    /\ UNCHANGED <<nlpVars, concVars, vadVars, driveVars>>

NextRem ==
    \/ \E text \in ReminderTexts : add_reminder(text)
    \/ \E reminder_id \in ReminderIds : complete_reminder(reminder_id)
    \/ \E reminder_id \in ReminderIds : delete_reminder(reminder_id)
    \/ clear_completed

SpecRem == InitNlp /\ [][NextRem]_vars

-----------------------------------------------------------------------------
(* Properties of classify_intent and add_intent_examples *)

\* The texts of Texts that are None, empty or whitespace only.
BlankTexts == {NoneText, "", "  "}

\* Every cosine classify_intent computed for the observed text.
AllSims ==
    UNION {{nlpOp.q.cos[intent_embeddings[k].v[n].vec] :
                n \in 1..Len(intent_embeddings[k].v)} :
           k \in 1..Len(intent_embeddings)}

TrueMaximum == CHOOSE m \in AllSims : \A x \in AllSims : x <= m

\* C1 as stated: classify_intent returns "unknown" if and only if the
\* confidence it returns is strictly below the threshold, for every text,
\* catalog and threshold in [0, 1].
C1_UnknownIffBelow ==
    Observed => (nlpOp.intent = "unknown" <=> nlpOp.score < nlpOp.threshold)

\* C1 amended: a confidence strictly below the threshold is always returned
\* with "unknown"; for a threshold in (0, 1] and a catalog with no intent
\* itself named "unknown" the converse holds too, so a best score equal to
\* the threshold returns the matched intent.
C1_UnknownIffBelowPositive ==
    Observed =>
        /\ nlpOp.score < nlpOp.threshold => nlpOp.intent = "unknown"
        /\ (nlpOp.threshold > 0 /\ "unknown" \notin Keys(intent_embeddings))
              => (nlpOp.intent = "unknown" => nlpOp.score < nlpOp.threshold)

C1_Witness ==
    /\ Observed
    /\ nlpOp.text \notin BlankTexts
    /\ nlpOp.threshold > 0
    /\ nlpOp.score = nlpOp.threshold
    /\ nlpOp.intent \in Keys(intent_embeddings) \ {"unknown"}

\* C2: for a non-blank text whose similarity to every example of every
\* intent is below the threshold, classify_intent returns "unknown" with the
\* maximum similarity over all examples, negative maxima included.
C2_RawMaximum ==
    (/\ Observed
     /\ nlpOp.text \notin BlankTexts
     /\ \A x \in AllSims : x < nlpOp.threshold)
        => (nlpOp.intent = "unknown" /\ nlpOp.score = TrueMaximum)

\* C3: classify_intent of an empty, None or whitespace-only text returns
\* ("unknown", 0.0) and never calls the embedding model.
C3_BlankShortCircuit ==
    (Observed /\ nlpOp.text \in BlankTexts)
        => (nlpOp.intent = "unknown" /\ nlpOp.score = 0 /\ nlpOp.calls = 0)

C3_Witness ==
    /\ Observed
    /\ nlpOp.text = "  "
    /\ nlpOp.calls = 0
    /\ nlpOp.threshold > 0

\* The observed classification is of the phrase p that the call just before
\* it, add_intent_examples(i, [p]), added.
RoundTrip ==
    /\ Observed
    /\ nlpOp.after.op = "add"
    /\ nlpOp.after.examples = <<nlpOp.text>>

\* An intent before position `pos` of the index has an example as similar to
\* the observed text as the text is to itself.
EarlierTie(pos) ==
    \E k \in 1..(pos - 1) : \E n \in 1..Len(intent_embeddings[k].v) :
        nlpOp.q.cos[intent_embeddings[k].v[n].vec] = Scale

\* C4 as stated: after add_intent_examples(i, [p]), classify_intent(p)
\* returns (i, score) with score at or above the threshold, for any catalog,
\* intent name and phrase.
C4_RoundTripAny ==
    RoundTrip =>
        (nlpOp.intent = nlpOp.after.intent /\ nlpOp.score >= nlpOp.threshold)

\* C4 amended: for a non-blank, trimmed, lower-case phrase p the score
\* returned is at or above the threshold, and the intent returned is i
\* provided no intent before i in the catalog's order has an example whose
\* similarity to p is also the maximum (otherwise that earlier intent wins).
C4_RoundTripFirstWins ==
    RoundTrip =>
        /\ nlpOp.score = Scale
        /\ nlpOp.score >= nlpOp.threshold
        /\ ~EarlierTie(Pos(intent_embeddings, nlpOp.after.intent))
              => nlpOp.intent = nlpOp.after.intent

C4_Witness ==
    /\ RoundTrip
    /\ nlpOp.after.intent = "custom_intent"
    /\ nlpOp.text = "foo bar"
    /\ nlpOp.intent = "custom_intent"
    /\ nlpOp.q.cos["bye"] < Scale

\* C5: add_intent_examples(i, examples) leaves the phrases and the
\* embeddings of every other intent as they were, encodes the phrases of
\* intent i only, and appends to an existing intent's phrases.
C5_AddFrame ==
    [][nlpOp'.op = "add" =>
         LET i == nlpOp'.intent
         IN  /\ Keys(intents') = Keys(intents) \cup {i}
             /\ Keys(intent_embeddings') = Keys(intent_embeddings) \cup {i}
             /\ \A j \in Keys(intents) \ {i} :
                    /\ Get(intents', j) = Get(intents, j)
                    /\ Get(intent_embeddings', j) = Get(intent_embeddings, j)
             /\ nlpOp'.encoded = Get(intents', i)
             /\ i \in Keys(intents) =>
                    Get(intents', i) = Get(intents, i) \o nlpOp'.examples
             /\ i \notin Keys(intents) => Get(intents', i) = nlpOp'.examples
    ]_vars

\* The call extended the list of its intent, and the phrases of another
\* intent stored under the same list object grew with it.
C5_OtherIntentChanged ==
    /\ nlpOp.op = "add"
    /\ \E other \in Sharing(nlpOp.intent) \ {nlpOp.intent} :
          /\ Get(intents, other) = nlpOp.encoded
          /\ Len(nlpOp.encoded) > Len(nlpOp.examples)
          /\ Len(Get(intent_embeddings, other)) < Len(nlpOp.encoded)

\* C6: add_intent_examples excludes all readers: while a thread is between
\* the start of its catalog update and the end of its embedding-index
\* update, no classify_intent call takes a step.
C6_WriterExcludesReaders ==
    [][Mutating => rd' = rd]_vars

\* Two classify_intent calls are inside the loop at once.
C6_ReadersOverlap ==
    \A r \in 1..NumReaders : rd[r].pc = "loop"

\* C6, what a reader can observe: classify_intent never ends in a
\* RuntimeError raised by the dict iterator.
C6_NoReaderRaises ==
    \A r \in 1..NumReaders : rd[r].pc # "raised"

-----------------------------------------------------------------------------
(* Properties of the recording loops *)

Done == pc = "done"

\* No frame of fs has an RMS strictly above ENERGY_THRESHOLD.
AllLow(fs) == \A n \in 1..Len(fs) : fs[n].rms <= ENERGY_THRESHOLD

\* fs is N >= 1 frames above ENERGY_THRESHOLD followed by frames at or
\* below it only.
SpeechThenLow(fs, N) ==
    /\ N \in 1..Len(fs)
    /\ \A n \in 1..N : fs[n].rms > ENERGY_THRESHOLD
    /\ \A n \in (N + 1)..Len(fs) : fs[n].rms <= ENERGY_THRESHOLD

\* The frames of fs are the first Len(fs) frames read, in the order read.
InStreamOrder(fs) == \A n \in 1..Len(fs) : fs[n].seq = n

\* C7: when no frame read had an RMS strictly above ENERGY_THRESHOLD, what
\* record returns is None, however many frames it read.
C7_SilenceReturnsNone ==
    (fn = "record" /\ Done /\ ret.kind = "returned" /\ AllLow(frames))
        => ret.value = NoneValue

C7_Witness ==
    /\ fn = "record" /\ Done
    /\ ret.cause = "timeout"
    /\ Len(frames) >= 3
    /\ AllLow(frames)
    /\ \E n \in 1..Len(frames) : frames[n].rms = ENERGY_THRESHOLD
    /\ ret.value = NoneValue

\* record stopped for silence and returned an utterance.
SealedBySilence ==
    /\ fn = "record" /\ Done
    /\ ret.kind = "returned"
    /\ ret.cause = "silence"
    /\ ret.value.type = "bytes"

\* C8 as stated: N frames of speech followed by silence give an utterance
\* of those N frames and the first SILENCE_THRESHOLD low-energy frames, and
\* no frame beyond them.
C8_StopsAtThreshold ==
    SealedBySilence =>
        \A N \in 1..Len(ret.value.frames) :
            SpeechThenLow(ret.value.frames, N) =>
                /\ Len(ret.value.frames) = N + SILENCE_THRESHOLD
                /\ InStreamOrder(ret.value.frames)

\* C8 amended: the utterance is those N frames followed by the first
\* SILENCE_THRESHOLD + 1 low-energy frames (the frame that takes the count
\* past SILENCE_THRESHOLD is kept too), every frame read and no other, in
\* stream order.
C8_StopsPastThreshold ==
    SealedBySilence =>
        \A N \in 1..Len(ret.value.frames) :
            SpeechThenLow(ret.value.frames, N) =>
                /\ Len(ret.value.frames) = N + SILENCE_THRESHOLD + 1
                /\ InStreamOrder(ret.value.frames)
                /\ ret.value.frames = frames

C8_Witness ==
    /\ SealedBySilence
    /\ \E N \in 1..Len(ret.value.frames) : SpeechThenLow(ret.value.frames, N)
    /\ \E n \in 1..Len(frames) : frames[n].rms = ENERGY_THRESHOLD

\* What each call returns when nobody spoke before the timeout.
SilenceValue == IF fn = "record" THEN NoneValue ELSE Str(<<>>)

\* C9: a call that ended because stream.read failed does not return the
\* value it returns for silence (None from record, "" from listen).
C9_ReadFailureDistinct ==
    (Done /\ ret.cause = "read_error")
        => ~(ret.kind = "returned" /\ ret.value = SilenceValue)

\* record lets the read failure out as an exception.
C9_RecordRaises ==
    fn = "record" /\ Done /\ ret.cause = "read_error" /\ ret.kind = "raised"

\* C10: no read starts once more than LISTEN_TIMEOUT has passed since the
\* start of the call, and the call is over no later than LISTEN_TIMEOUT plus
\* the duration of one read, in record and in listen.
C10_BoundedBlocking ==
    /\ pc = "read" => clock - start_time <= LISTEN_TIMEOUT
    /\ pc \in {"after_loop", "done"} =>
           clock - start_time <= LISTEN_TIMEOUT + last_read

C10_Witness ==
    /\ fn = "listen" /\ Done
    /\ ret.cause = "timeout"
    /\ last_read = MaxReadTicks
    /\ clock - start_time = LISTEN_TIMEOUT + MaxReadTicks

-----------------------------------------------------------------------------
(* Properties of the routers, the conversation drivers and extract_entities *)

\* The driver has classified the text it serves and extracted its entities.
Classified == turn.route \in {"dispatch", "exit"}

\* The router has dispatched on the intent.
Routed == turn.route = "dispatch"

\* The collaborator that was called returned a text.
CollaboratorReturned == turn.out.kind = "returned"

\* C11: routing temperature_set, the router returns a clarifying question
\* and calls nothing when the entities hold no number, and for every integer
\* the number entity may hold it calls set_temperature with that number
\* exactly once and returns the collaborator's text.
C11_TemperatureRouting ==
    (Routed /\ turn.intent = "temperature_set") =>
        IF "number" \in DOMAIN turn.entities
        THEN /\ turn.calls = <<[op |-> "set_temperature",
                                args |-> <<turn.entities["number"]>>]>>
             /\ CollaboratorReturned => turn.ret = turn.out
        ELSE /\ turn.calls = <<>>
             /\ turn.ret.text \in {AskTemperature, AskTemperatureShort}

\* The number 0 was extracted and the thermostat was not called.
C11_ZeroIsAsked ==
    /\ Routed /\ turn.intent = "temperature_set"
    /\ "number" \in DOMAIN turn.entities /\ turn.entities["number"] = 0
    /\ turn.calls = <<>>
    /\ turn.ret.text \in {AskTemperature, AskTemperatureShort}

\* The router called collaborator operation op once, with these arguments,
\* and nothing else, and handed back the text the collaborator returned.
DelegatedTo(op, args) ==
    /\ turn.calls = <<[op |-> op, args |-> args]>>
    /\ CollaboratorReturned => turn.ret = turn.out

\* C12: routing reminder_set, the router returns a clarifying question and
\* does not call the reminder collaborator when reminder_text is absent or
\* empty, and calls add_reminder with it exactly once and returns the
\* collaborator's text when it is non-empty; reminder_list always delegates
\* to list_reminders.
C12_ReminderRouting ==
    Routed =>
        /\ turn.intent = "reminder_set" =>
              IF /\ "reminder_text" \in DOMAIN turn.entities
                 /\ turn.entities["reminder_text"] # <<>>
              THEN DelegatedTo("add_reminder",
                               <<turn.entities["reminder_text"]>>)
              ELSE /\ turn.calls = <<>>
                   /\ turn.ret.text \in {AskReminder, AskReminderShort}
        /\ turn.intent = "reminder_list" => DelegatedTo("list_reminders", <<>>)

\* "remind me to buy milk" was routed to add_reminder("buy milk"), whose
\* text is the response.
C12_Witness ==
    /\ Routed /\ turn.intent = "reminder_set"
    /\ turn.calls = <<[op |-> "add_reminder", args |-> <<<<"b","u","y"," ","m","i","l","k">>>>]>>
    /\ CollaboratorReturned /\ turn.ret = turn.out


\* The routing is one that the search table entry covers: web_search, or
\* unknown with likely_search set.
SearchIntent ==
    \/ turn.intent = "web_search"
    \/ /\ turn.intent = "unknown"
       /\ "likely_search" \in DOMAIN turn.entities
       /\ turn.entities["likely_search"]

\* C13: for web_search, or unknown with likely_search, the router always
\* calls the search collaborator, with entities.query when that is non-empty
\* and with the raw text when the query is empty or absent.
C13_SearchAlwaysCalled ==
    (Routed /\ SearchIntent) =>
        /\ Len(turn.calls) = 1
        /\ turn.calls[1].op = "search"
        /\ turn.calls[1].args =
              <<IF /\ "query" \in DOMAIN turn.entities
                   /\ turn.entities["query"] # <<>>
                THEN turn.entities["query"] ELSE turn.text>>

\* "search for" was routed as web_search with the empty query, and the search
\* collaborator was not called with the raw text.
C13_EmptyQuery ==
    /\ Routed /\ turn.intent = "web_search"
    /\ turn.entities["query"] = <<>>
    /\ \/ turn.calls = <<>>
       \/ turn.calls = <<[op |-> "search", args |-> <<<<>>>>]>>

\* The search collaborator was called and returned a result.
SearchReturned ==
    /\ Routed /\ turn.calls # <<>> /\ turn.calls[1].op = "search"
    /\ CollaboratorReturned

\* The numbers p of characters that precede a paragraph break of result.
Breaks(result) ==
    {p \in 0..(Len(result) - 2) :
        result[p + 1] = "\n" /\ result[p + 2] = "\n"}

\* C14: for every search result of more than SUMMARY_LIMIT (300) characters
\* without a paragraph break, the response of the router is exactly the
\* first SUMMARY_LIMIT characters of the result, nothing appended.
C14_HardTruncation ==
    (/\ SearchReturned
     /\ Len(turn.out.text) > SUMMARY_LIMIT
     /\ Breaks(turn.out.text) = {})
    => turn.ret = [kind |-> "returned",
                   text |-> SubSeq(turn.out.text, 1, SUMMARY_LIMIT)]

\* A result without a paragraph break came back longer than SUMMARY_LIMIT
\* characters.
C14_LongerThanLimit ==
    /\ SearchReturned
    /\ Len(turn.out.text) > SUMMARY_LIMIT
    /\ Breaks(turn.out.text) = {}
    /\ Len(turn.ret.text) > SUMMARY_LIMIT

\* C15: for every search result of more than SUMMARY_LIMIT (300) characters
\* whose first paragraph break is at index p <= SUMMARY_LIMIT, the router
\* returns exactly the first p characters of the result; a result of at most
\* SUMMARY_LIMIT characters is returned unchanged.
C15_ParagraphSummary ==
    SearchReturned =>
        LET result == turn.out.text IN
        /\ (/\ Len(result) > SUMMARY_LIMIT
            /\ \E p \in Breaks(result) : p <= SUMMARY_LIMIT)
           => \E p \in Breaks(result) :
                 /\ \A q \in Breaks(result) : p <= q
                 /\ turn.ret = [kind |-> "returned",
                                text |-> SubSeq(result, 1, p)]
        /\ Len(result) <= SUMMARY_LIMIT
           => turn.ret = [kind |-> "returned", text |-> result]

\* A result longer than SUMMARY_LIMIT with several paragraph breaks, the
\* first of them after some text, was cut at the first one.
C15_Witness ==
    /\ SearchReturned
    /\ Len(turn.out.text) > SUMMARY_LIMIT
    /\ \E p, q \in Breaks(turn.out.text) :
          /\ 0 < p /\ p < q /\ p <= SUMMARY_LIMIT
          /\ \A o \in Breaks(turn.out.text) : p <= o
          /\ turn.ret.text = SubSeq(turn.out.text, 1, p)

\* The drivers that hold a conversation.
InConversation == who \in {"SmartFace", "SmartFaceClient"}

\* C16: when a collaborator raises while a request is routed, the router
\* catches it and returns an apologetic response text; the exception does
\* not reach the conversation driver: SmartFace._conversation_loop keeps
\* running and the server answers with a body that holds a response text.
C16_FailureBecomesApology ==
    (Routed /\ turn.out.kind = "raised") =>
        /\ turn.ret.kind = "returned" /\ turn.ret.text # <<>>
        /\ who = "SmartFace" => at = "listen" /\ running
        /\ who # "SmartFace" =>
              /\ turn.http.status = 200
              /\ "response" \in DOMAIN turn.http.body

\* A collaborator raised and SmartFace left its conversation loop.
C16_LoopEndsOnFailure ==
    /\ who = "SmartFace" /\ Routed /\ turn.out.kind = "raised"
    /\ turn.ret.kind = "raised"
    /\ at = "ended"

C18_GoodbyeEndsLoop ==
    (InConversation /\ Classified) =>
        /\ turn.intent = "goodbye" => at = "ended" /\ Len(said) = 1
        /\ (turn.intent # "goodbye"
              /\ turn.text \notin {<<"s","t","o","p">>, <<"Q","u","i","t">>})
           => at = "listen"

\* An utterance that is neither goodbye nor an exit command ended the loop
\* of SmartFace.
C18_OtherIntentEndsLoop ==
    /\ who = "SmartFace" /\ Routed /\ turn.intent # "goodbye"
    /\ at = "ended"

\* A keyword of the list occurs in the text that was classified, whatever
\* the case of its letters.
Mentions(keywords) ==
    \E n \in DOMAIN keywords : str_in(keywords[n], str_lower(turn.text))

\* C19: extract_entities sets the forecast flag exactly for the weather
\* intents, weather and weather_city: for either the result holds a boolean
\* forecast, true iff a forward-looking keyword occurs in the text, and may
\* hold city; for every other intent it holds neither forecast nor city.
C19_ForecastForWeatherIntents ==
    Classified =>
        IF turn.intent \in {"weather", "weather_city"}
        THEN /\ "forecast" \in DOMAIN turn.entities
             /\ turn.entities["forecast"] = Mentions(forecast_keywords)
        ELSE /\ "forecast" \notin DOMAIN turn.entities
             /\ "city" \notin DOMAIN turn.entities

\* A text classified weather_city went through extract_entities and has no
\* forecast flag.
C19_WeatherCityWithoutForecast ==
    /\ Classified /\ turn.intent = "weather_city"
    /\ "forecast" \notin DOMAIN turn.entities

\* C20: extract_entities puts a query in the result if and only if the
\* intent is web_search or unknown or the text contains a question keyword;
\* it sets likely_search, to true, if and only if the intent is unknown and
\* a question keyword was found.
C20_QueryAndLikelySearch ==
    Classified =>
        /\ "query" \in DOMAIN turn.entities
              <=> \/ turn.intent \in {"web_search", "unknown"}
                  \/ Mentions(question_words)
        /\ "likely_search" \in DOMAIN turn.entities
              <=> turn.intent = "unknown" /\ Mentions(question_words)
        /\ "likely_search" \in DOMAIN turn.entities
              => turn.entities["likely_search"] = TRUE

\* "what is python" classified unknown: the query is "python" and
\* likely_search is set.
C20_Witness ==
    /\ Classified /\ turn.intent = "unknown"
    /\ turn.text = <<"w","h","a","t"," ","i","s"," ","p","y","t","h","o","n">>
    /\ turn.entities["query"] = <<"p","y","t","h","o","n">>
    /\ turn.entities["likely_search"] = TRUE

-----------------------------------------------------------------------------
(* Further properties of the classifier and its catalog *)

\* np.max(similarities) of the k-th intent of the index, for the text of
\* the observed classification.
PerIntentMax(k) == MaxOf(Similarities(nlpOp.q, intent_embeddings[k].v))

\* The positions of the intents whose maximum is the maximum of all.
Tied == {k \in 1..Len(intent_embeddings) : PerIntentMax(k) = TrueMaximum}

\* C21: when two or more intents attain the same maximal per-intent
\* similarity to a non-blank text, and that maximum is not below the
\* threshold, classify_intent returns the one of them that comes first in
\* the iteration order of the catalog.
C21_FirstOfTiesWins ==
    (/\ Observed
     /\ nlpOp.text \notin BlankTexts
     /\ Cardinality(Tied) >= 2
     /\ TrueMaximum >= nlpOp.threshold)
        => /\ nlpOp.intent = intent_embeddings[Least(Tied)].k
           /\ nlpOp.score = TrueMaximum

\* Two intents are tied at the maximum 0.0, the threshold is 0 and the
\* result is the default ("unknown", 0.0), not the first of them.
C21_TieAtZero ==
    /\ Observed
    /\ nlpOp.text \notin BlankTexts
    /\ Cardinality(Tied) >= 2
    /\ TrueMaximum = 0 /\ nlpOp.threshold = 0
    /\ nlpOp.intent = "unknown"
    /\ "unknown" \notin Keys(intent_embeddings)

\* C22: after construction and after any sequence of completed
\* add_intent_examples calls, the intents of the embedding index are the
\* intents of the catalog, and the embedding set of each intent holds one
\* vector per example phrase of the intent, in phrase order.
C22_IndexMatchesCatalog ==
    /\ Keys(intent_embeddings) = Keys(intents)
    /\ \A intent \in Keys(intents) :
          Get(intent_embeddings, intent) = EncodeAll(Get(intents, intent))

\* An intent stored under a list object it shares with another intent has
\* more phrases than vectors.
C22_SharedListOutgrowsIndex ==
    \E held \in lists : \E intent \in held :
        /\ Cardinality(held) >= 2
        /\ nlpOp.op = "add" /\ nlpOp.intent \in held \ {intent}
        /\ Len(Get(intents, intent)) > Len(Get(intent_embeddings, intent))

-----------------------------------------------------------------------------
(* Further properties of the recording loops *)

\* record has returned an utterance.
ReturnedUtterance ==
    /\ fn = "record" /\ Done
    /\ ret.kind = "returned" /\ ret.value.type = "bytes"

\* The number, in the order read, of the first frame whose RMS exceeded
\* ENERGY_THRESHOLD.
Onset == Least({n \in 1..Len(frames) : frames[n].rms > ENERGY_THRESHOLD})

\* C23: an utterance returned by record holds only frames captured from
\* speech onset onward: no frame read before the first frame whose RMS
\* exceeded ENERGY_THRESHOLD is part of the returned audio buffer.
C23_OnlyFromOnset ==
    ReturnedUtterance =>
        \A n \in 1..Len(ret.value.frames) : ret.value.frames[n].seq >= Onset

\* The returned buffer starts with a frame at or below ENERGY_THRESHOLD
\* that was read before the first frame above it.
C23_LeadingSilenceKept ==
    /\ ReturnedUtterance
    /\ Onset > 1
    /\ ret.value.frames[1].seq = 1
    /\ ret.value.frames[1].rms <= ENERGY_THRESHOLD

\* The low-energy counter of the loop that runs, and its speech flag.
Counter == IF fn = "record" THEN silence ELSE silence_counter

Detected == IF fn = "record" THEN spoken ELSE has_spoken

\* The step reads a frame and takes it through the loop body.
ReadsFrame == pc = "read" /\ pc' \in {"check", "after_loop"}

\* C24: in the recording loops (record and listen) the low-energy counter
\* counts consecutive frames only: it stays 0 until speech has been
\* detected, every frame above ENERGY_THRESHOLD resets it to 0, a frame is
\* read only while the counter has not exceeded SILENCE_THRESHOLD, and the
\* loop stops for silence exactly at the frame after which the counter is
\* strictly greater than SILENCE_THRESHOLD, with no frame read after it.
C24_ConsecutiveLowCount ==
    [][ReadsFrame =>
          /\ ~(Detected /\ Counter > SILENCE_THRESHOLD)
          /\ ~Detected' => Counter' = 0
          /\ data'.rms > ENERGY_THRESHOLD => Counter' = 0
          /\ pc' = "after_loop" <=> (Detected' /\ Counter' > SILENCE_THRESHOLD)
          /\ pc' = "after_loop" => Counter' = SILENCE_THRESHOLD + 1
    ]_vars

\* listen has counted a chunk above ENERGY_THRESHOLD as silence.
C24_LoudChunkCounted ==
    /\ fn = "listen" /\ pc \in {"check", "after_loop"}
    /\ has_spoken
    /\ data.rms \in 0..MaxRms /\ data.rms > ENERGY_THRESHOLD
    /\ silence_counter > 0

\* record has returned, a value or None.
RecordReturned == fn = "record" /\ Done /\ ret.kind = "returned"

\* C25 as stated: when a frame exceeded ENERGY_THRESHOLD and LISTEN_TIMEOUT
\* elapsed before the low-energy count exceeded SILENCE_THRESHOLD, record
\* returns a non-None utterance; it returns None only when no frame ever
\* exceeded the threshold.
C25_NoneOnlyForSilence ==
    RecordReturned =>
        /\ (ret.cause = "timeout" /\ ~AllLow(frames)) => ret.value # NoneValue
        /\ ret.value = NoneValue => AllLow(frames)

\* C25 amended: the timeout seals the utterance, which holds every frame
\* read; None is returned exactly when no frame exceeded the threshold, when
\* the loop was interrupted from the keyboard, or when writing the WAV
\* buffer failed.
C25_TimeoutSeals ==
    RecordReturned =>
        /\ (ret.cause = "timeout" /\ ~AllLow(frames))
              => ret.value = Wav(frames)
        /\ ret.value = NoneValue
              <=> \/ AllLow(frames)
                  \/ ret.cause \in {"interrupt", "wav_error"}

\* Speech was still going on when the timeout ended the loop, and record
\* returned the frames read so far.
C25_Witness ==
    /\ RecordReturned
    /\ ret.cause = "timeout"
    /\ frames[Len(frames)].rms > ENERGY_THRESHOLD
    /\ silence <= SILENCE_THRESHOLD
    /\ ret.value = Wav(frames)

-----------------------------------------------------------------------------
(* Further properties of the routers *)

\* The search result has a paragraph break, and its first one lies beyond
\* character SUMMARY_LIMIT.
FirstBreakBeyondLimit ==
    /\ Breaks(turn.out.text) # {}
    /\ \A p \in Breaks(turn.out.text) : p > SUMMARY_LIMIT

\* C26: for every search result longer than SUMMARY_LIMIT (300) characters
\* whose first paragraph break lies beyond character SUMMARY_LIMIT the
\* router returns the first SUMMARY_LIMIT characters, and no routed search
\* response is longer than SUMMARY_LIMIT characters.
C26_CapRespected ==
    SearchReturned =>
        /\ Len(turn.ret.text) <= SUMMARY_LIMIT
        /\ FirstBreakBeyondLimit
              => turn.ret.text = SubSeq(turn.out.text, 1, SUMMARY_LIMIT)

\* The first paragraph of the result is longer than SUMMARY_LIMIT and was
\* returned whole.
C26_LongFirstParagraph ==
    /\ SearchReturned
    /\ FirstBreakBeyondLimit
    /\ \E p \in Breaks(turn.out.text) :
          /\ turn.ret.text = SubSeq(turn.out.text, 1, p)
          /\ Len(turn.ret.text) > SUMMARY_LIMIT

\* The operations of the skill collaborators: search, reminders, smart home
\* and weather.  The canned responses of the response handler are no skill.
SkillCalls == {n \in DOMAIN turn.calls : turn.calls[n].op # "generate_response"}

\* The intents of the routing table.
TableIntents ==
    canned_intents \cup
    {"web_search", "reminder_set", "reminder_list", "light_on", "light_off",
     "temperature_set", "device_status", "weather", "weather_city"}

\* likely_search is set in the entities.
LikelySearchSet ==
    /\ "likely_search" \in DOMAIN turn.entities
    /\ turn.entities["likely_search"]

\* The routing falls back: unknown without likely_search, or an intent
\* outside the routing table.
FallsBack ==
    /\ Routed
    /\ \/ turn.intent = "unknown" /\ ~LikelySearchSet
       \/ turn.intent \notin TableIntents \cup {"unknown"}

\* C27: an utterance classified unknown with likely_search set is
\* dispatched to the search collaborator; an utterance classified unknown
\* without likely_search, or with an intent outside the routing table, never
\* calls a skill collaborator and yields the canned response for unknown
\* or, only when entities.query is non-empty, an offer to search for that
\* query.
C27_FallbackPolicy ==
    /\ (Routed /\ turn.intent = "unknown" /\ LikelySearchSet)
          => /\ Len(turn.calls) = 1
             /\ turn.calls[1].op = "search"
    /\ FallsBack
          => /\ SkillCalls = {}
             /\ \/ /\ turn.calls = <<[op |-> "generate_response",
                                      args |-> <<"unknown">>]>>
                   /\ CollaboratorReturned => turn.ret = turn.out
                \/ /\ turn.calls = <<>>
                   /\ "query" \in DOMAIN turn.entities
                   /\ turn.entities["query"] # <<>>
                   /\ turn.ret = Returned(OfferSearch(turn.entities["query"]))

\* A question without a subject ("what is") was classified unknown with
\* likely_search set, and SmartFace did not call the search collaborator.
C27_QuestionNotSearched ==
    /\ who = "SmartFace" /\ Routed
    /\ turn.intent = "unknown" /\ LikelySearchSet
    /\ turn.entities["query"] = <<>>
    /\ turn.calls = <<>>

\* What SmartFace._process_input and the server's generate_response do for
\* the text, intent and entities of the turn and the same outcome of the
\* collaborator.
ByMain == process_input(turn.text, turn.intent, turn.entities, turn.out)

ByServer == generate_response(turn.intent, turn.entities, turn.text, turn.out)

\* C28: the two routers implement the same dispatch table: for every
\* intent, entities and raw text, SmartFace._process_input and the server's
\* generate_response call no collaborator, or the same collaborator
\* operation with the same arguments, and return the same response text
\* when the collaborator returns the same text.
C28_SameDispatchTable ==
    Classified =>
        /\ ByMain.calls = ByServer.calls
        /\ turn.out.kind # "raised" => ByMain.ret = ByServer.ret

\* For the turn that was served, one router calls a collaborator and the
\* other calls none.
C28_RoutersDisagree ==
    /\ Classified
    /\ turn.text \notin {<<"s","t","o","p">>, <<"Q","u","i","t">>}
    /\ turn.intent # "goodbye"
    /\ (ByMain.calls = <<>>) # (ByServer.calls = <<>>)

-----------------------------------------------------------------------------
(* Properties of ReminderSkill *)

\* C29: after any sequence of add_reminder, complete_reminder,
\* delete_reminder and clear_completed calls no two stored reminders have
\* the same id, so that an id addresses at most one reminder.
C29_UniqueIds ==
    \A n, m \in 1..Len(reminders) :
        reminders[n].id = reminders[m].id => n = m

\* A reminder was added with an id that a stored reminder already has.
C29_IdReused ==
    /\ rem_ret.op = "add_reminder" /\ rem_ret.say = "added"
    /\ Len(reminders) >= 2
    /\ reminders[Len(reminders)].id = rem_ret.id
    /\ \E n \in 1..(Len(reminders) - 1) : reminders[n].id = rem_ret.id

-----------------------------------------------------------------------------
(* Properties of the server's process_text endpoint *)

\* process_text has answered a request.
TextAnswered == who = "process_text" /\ turn.route # "none"

\* C30: process_text answers a request whose text is empty after trimming
\* with status 400 ("Empty text"), without classifying it and without
\* calling a collaborator; it answers with status 500 only when something
\* raised while a non-empty query was processed.
C30_EmptyTextIs400 ==
    TextAnswered =>
        /\ str_strip(user_text) = <<>>
              => /\ turn.http.status = 400
                 /\ turn.http.body = [detail |-> "Empty text"]
                 /\ turn.route = "empty" /\ turn.calls = <<>>
        /\ turn.http.status = 500
              => /\ str_strip(user_text) # <<>>
                 /\ turn.ret.kind = "raised"

\* A request with a blank text was answered with status 500; nothing was
\* classified or called.
C30_EmptyTextIs500 ==
    /\ TextAnswered
    /\ user_text = <<" ", " ">>
    /\ turn.route = "empty" /\ turn.calls = <<>>
    /\ turn.http.status = 500
====
